---- MODULE Spec2Model ----
(***************************************************************************)
(* Model of sbomnix/sbomdb.py: the metadata loader                         *)
(* (_parse_json_metadata, _parse_meta_entry), the merge                    *)
(* (SbomDb._generate_sbomdb), the projector (_df_row_to_cdx_component,     *)
(* _cdx_component_add_licenses, _licenses_entry_from_row) and the          *)
(* assembler (SbomDb.to_cdx).                                              *)
(*                                                                         *)
(* Strings are sequences of characters (one-character TLA+ strings), so    *)
(* that split, join and percent-encoding are computed, not assumed.        *)
(* Strings that the code only copies or compares (store paths, names,      *)
(* cpe) are written as a sequence holding one token.                       *)
(***************************************************************************)
EXTENDS Integers, Sequences, FiniteSets, TLC

VARIABLES
    df_store,       \* Store.to_dataframe(): the inventory rows, in order
    meta_path,      \* "None" or the path of the catalog file
    json_dict,      \* content of the catalog file: <<key, pkg>> in file order
    target_path,    \* Store.get_target_drv_path()
    df_merged,      \* _generate_sbomdb's local df_sbomdb: the rows before replace
    df_sbomdb,      \* self.df_sbomdb: rows of the canonical set
    n_root,         \* number of assignments to cdx["metadata"]["component"] in to_cdx
    cdx_file,       \* the document to_cdx wrote to cdx_path
    pc,             \* position of the run
    pkg,            \* the loader alone: one package object of the catalog
    meta_row,       \* the loader alone: the row of the frame it gives
    row,            \* the projector alone: one canonical row
    component       \* the projector alone: the component it gives

vars == <<df_store, meta_path, json_dict, target_path, df_merged, df_sbomdb,
          n_root, cdx_file, pc, pkg, meta_row, row, component>>

pipeline_vars == <<df_store, meta_path, json_dict, target_path, df_merged,
                   df_sbomdb, n_root, cdx_file>>

----------------------------------------------------------------------------
(* Bounds *)

MaxStore == 3          \* rows of the inventory
MaxMeta == 2           \* entries of the catalog
MaxLicenseItems == 3   \* entries of a meta.license list
MaxLicenseLen == 4     \* characters of a meta_license_short cell

----------------------------------------------------------------------------
(* Values *)

EmptyStr == <<>>
\* numpy.nan and Python None: neither is a string over the alphabet
NaN == <<"NaN">>
None == <<"None">>
NoValue == <<"unset">>

IsNa(v) == v = NaN \/ v = None

\* Python truthiness of a string-or-None value
Truthy(v) == v # EmptyStr /\ v # None

\* dict.get(key, default)
Get(d, key, default) == IF key \in DOMAIN d THEN d[key] ELSE default

\* a dict with no key
EmptyDict == [k \in {} |-> <<>>]

\* JSON values that _parse_meta_entry inspects with isinstance: t is the
\* Python type, and d, l or s holds the dict, the list or the string
JDict(f) == [t |-> "dict", d |-> f, l |-> <<>>, s |-> <<>>]
JList(x) == [t |-> "list", d |-> EmptyDict, l |-> x, s |-> <<>>]
JStr(x) == [t |-> "str", d |-> EmptyDict, l |-> <<>>, s |-> x]

----------------------------------------------------------------------------
(* str.join and str.split *)

RECURSIVE Join(_, _)
Join(sep, strs) ==
    IF strs = <<>> THEN EmptyStr
    ELSE IF Len(strs) = 1 THEN strs[1]
    ELSE strs[1] \o sep \o Join(sep, Tail(strs))

\* s.split(sep) for a one-character sep: always at least one segment
RECURSIVE SplitFrom(_, _, _)
SplitFrom(s, sep, cur) ==
    IF s = <<>> THEN <<cur>>
    ELSE IF Head(s) = sep THEN <<cur>> \o SplitFrom(Tail(s), sep, EmptyStr)
    ELSE SplitFrom(Tail(s), sep, Append(cur, Head(s)))

Split(s, sep) == SplitFrom(s, sep, EmptyStr)

----------------------------------------------------------------------------
(* Nix package metadata: _parse_meta_entry, _parse_json_metadata *)

\* the value _parse_meta_entry takes from one element of a list
MetaItemValue(x, key) ==
    IF x.t = "dict" THEN Get(x.d, key, EmptyStr) ELSE x.s

\* _parse_meta_entry returning ret as it is, without filter(None, ret)
ParseMetaEntryNoFilter(meta, key) ==
    IF meta.t = "dict" THEN << Get(meta.d, key, EmptyStr) >>
    ELSE IF meta.t = "list" THEN
        [i \in 1..Len(meta.l) |-> MetaItemValue(meta.l[i], key)]
    ELSE << meta.s >>

\* _parse_meta_entry(meta, key)
ParseMetaEntry(meta, key) ==
    LET ret ==
        IF meta.t = "dict" THEN << Get(meta.d, key, EmptyStr) >>
        ELSE IF meta.t = "list" THEN
            [i \in 1..Len(meta.l) |-> MetaItemValue(meta.l[i], key)]
        ELSE << meta.s >>
    IN SelectSeq(ret, Truthy)

\* one row of the frame built from one <<nixpkg_name, p>> item of json_dict
MetaRow(nixpkg_name, p) ==
    LET meta == Get(p, "meta", EmptyDict)
        meta_license == Get(meta, "license", JDict(EmptyDict))
        meta_maintainers == Get(meta, "maintainers", JDict(EmptyDict))
    IN [nixpkgs |-> nixpkg_name,
        name |-> Get(p, "name", EmptyStr),
        pname |-> Get(p, "pname", EmptyStr),
        version |-> Get(p, "version", EmptyStr),
        meta_homepage |-> Get(meta, "homepage", EmptyStr),
        meta_position |-> Get(meta, "position", EmptyStr),
        meta_license_short |-> Join(<<";">>, ParseMetaEntry(meta_license, "shortName")),
        meta_license_spdxid |-> Join(<<";">>, ParseMetaEntry(meta_license, "spdxId")),
        meta_maintainers_email |-> Join(<<";">>, ParseMetaEntry(meta_maintainers, "email"))]

MetaColumns == {"nixpkgs", "name", "pname", "version", "meta_homepage",
                "meta_position", "meta_license_short", "meta_license_spdxid",
                "meta_maintainers_email"}

\* pd.DataFrame(dict_selected): the columns exist only once setcol has run,
\* so an empty json_dict gives a frame with no columns at all
ParseJsonMetadata(jd) ==
    [columns |-> IF jd = <<>> THEN {} ELSE MetaColumns,
     rows |-> [i \in 1..Len(jd) |-> MetaRow(jd[i][1], jd[i][2])]]

----------------------------------------------------------------------------
(* SbomDb._generate_sbomdb *)

RECURSIVE Flatten(_)
Flatten(seqs) ==
    IF seqs = <<>> THEN <<>> ELSE Head(seqs) \o Flatten(Tail(seqs))

\* the metadata-side cells of a joined row; "name" is the join key, and
\* pname and version exist on both sides, so they get the "_meta" suffix
RightCells(r) ==
    [nixpkgs |-> r.nixpkgs,
     pname_meta |-> r.pname,
     version_meta |-> r.version,
     meta_homepage |-> r.meta_homepage,
     meta_position |-> r.meta_position,
     meta_license_short |-> r.meta_license_short,
     meta_license_spdxid |-> r.meta_license_spdxid,
     meta_maintainers_email |-> r.meta_maintainers_email]

NaNCells ==
    [nixpkgs |-> NaN, pname_meta |-> NaN, version_meta |-> NaN,
     meta_homepage |-> NaN, meta_position |-> NaN, meta_license_short |-> NaN,
     meta_license_spdxid |-> NaN, meta_maintainers_email |-> NaN]

\* the matching catalog rows, last one first
MatchesReversed(l, right) ==
    LET m == SelectSeq(right, LAMBDA r : r.name = l.name)
    IN [i \in 1..Len(m) |-> m[Len(m) + 1 - i]]

\* the catalog rows that match one inventory row, in catalog order
Matches(l, right) ==
    SelectSeq(right, LAMBDA r : r.name = l.name)

\* the joined rows of one inventory row: one per match, or one NaN-padded row
JoinedRows(l, right) ==
    LET m == Matches(l, right)
    IN IF m = <<>> THEN << l @@ NaNCells >>
       ELSE [k \in 1..Len(m) |-> l @@ RightCells(m[k])]

\* df_store.merge(df_meta, how="left", left_on=["name"], right_on=["name"],
\*                suffixes=["", "_meta"]): left order, matches in right order
Merge(left, right) ==
    Flatten([i \in 1..Len(left) |-> JoinedRows(left[i], right)])

\* the frame without the replace
ReplaceNaNIdentity(rows) == rows

\* df.replace(np.nan, "", regex=True)
ReplaceNaN(rows) ==
    [i \in 1..Len(rows) |->
        [c \in DOMAIN rows[i] |->
            IF IsNa(rows[i][c]) THEN EmptyStr ELSE rows[i][c]]]

\* drop_duplicates(subset="store_path", keep="last")
DropDuplicatesKeepLast(rows) ==
    LET keep == {i \in 1..Len(rows) :
                    \A j \in (i+1)..Len(rows) :
                        rows[j].store_path # rows[i].store_path}
        sel[i \in 0..Len(rows)] ==
            IF i = 0 THEN <<>>
            ELSE IF i \in keep THEN Append(sel[i-1], rows[i]) ELSE sel[i-1]
    IN sel[Len(rows)]

\* the frame without drop_duplicates
DropDuplicatesNone(rows) == rows

\* df.drop_duplicates(subset="store_path", keep="first")
DropDuplicates(rows) ==
    LET keep == {i \in 1..Len(rows) :
                    \A j \in 1..(i-1) :
                        rows[j].store_path # rows[i].store_path}
        sel[i \in 0..Len(rows)] ==
            IF i = 0 THEN <<>>
            ELSE IF i \in keep THEN Append(sel[i-1], rows[i]) ELSE sel[i-1]
    IN sel[Len(rows)]

\* merge raises KeyError when the right frame has no "name" column
MergeRaises(mp, jd) ==
    mp # "None" /\ "name" \notin ParseJsonMetadata(jd).columns

\* lines 44-57: the inventory, left-joined with the catalog when there is one
MergedFrame(store, mp, jd) ==
    IF mp # "None" THEN Merge(store, ParseJsonMetadata(jd).rows) ELSE store

\* lines 58-59
GenerateSbomdb(store, mp, jd) ==
    DropDuplicates(ReplaceNaN(MergedFrame(store, mp, jd)))

----------------------------------------------------------------------------
(* CycloneDX: the projector *)

\* _licenses_entry_from_row: one entry per element of license_str.split(";")
LicensesEntryFromRow(r, column_name, cdx_license_type) ==
    IF column_name \notin DOMAIN r THEN <<>>
    ELSE IF ~Truthy(r[column_name]) THEN <<>>
    ELSE LET license_strings == Split(r[column_name], ";")
         IN [i \in 1..Len(license_strings) |->
                [license |-> (cdx_license_type :> license_strings[i])]]

\* the licenses key set also for an empty list
CdxComponentAddLicensesAlways(comp, r) ==
    ("licenses" :> LicensesEntryFromRow(r, "meta_license_short", "name")) @@ comp

\* _cdx_component_add_licenses: the key is set only for a non-empty list
CdxComponentAddLicenses(comp, r) ==
    LET licenses == LicensesEntryFromRow(r, "meta_license_short", "name")
    IN IF licenses = <<>> THEN comp
       ELSE ("licenses" :> licenses) @@ comp

\* packageurl: characters left as they are by the percent-encoding
PurlUnreserved == {"f", "g", "1", "2", "-", ".", "_", "~", ":", "/"}

\* urllib.parse.quote of one character
PercentCode(c) ==
    CASE c \in PurlUnreserved -> <<c>>
      [] c = "+" -> <<"%", "2", "B">>
      [] c = ";" -> <<"%", "3", "B">>
      [] c = "@" -> <<"%", "4", "0">>

\* packageurl quote(): percent-encode every character but the unreserved ones
\* (the strip of blanks and of "/" at the ends changes no string used here)
PurlQuote(s) == Flatten([i \in 1..Len(s) |-> PercentCode(s[i])])

\* PackageURL(type, name, version) raises ValueError without a name
PackageURLRaises(name) == ~Truthy(name)

\* the plain concatenation "pkg:" + type + "/" + name + "@" + version
PackageURLToStringPlain(type, name, version) ==
    <<"p", "k", "g", ":">> \o type \o <<"/">> \o name \o <<"@">> \o version

\* str(PackageURL(type=type, name=name, version=version)): the name and the
\* version are percent-encoded, and "@version" is left out for no version
PackageURLToString(type, name, version) ==
    <<"p", "k", "g", ":">> \o type \o <<"/">> \o PurlQuote(name)
        \o (IF Truthy(version) THEN <<"@">> \o PurlQuote(version) ELSE EmptyStr)

\* _df_row_to_cdx_component, for a row whose pname PackageURL accepts
DfRowToCdxComponent(r) ==
    LET comp ==
            ("type" :> <<"application">>)
         @@ ("bom-ref" :> r.store_path)
         @@ ("name" :> r.pname)
         @@ ("version" :> r.version)
         @@ ("purl" :> PackageURLToString(<<"n", "i", "x">>, r.pname, r.version))
         @@ ("cpe" :> r.cpe)
    IN CdxComponentAddLicenses(comp, r)

----------------------------------------------------------------------------
(* Inputs *)

SeqsUpTo(S, n) == UNION {[1..k -> S] : k \in 0..n}

\* rows of Store.to_dataframe(): a repeated store_path, a missing cpe or
\* version, an empty pname, names with and without a catalog entry
StoreRows ==
    { [store_path |-> <<"/nix/a">>, name |-> <<"foo-1">>, pname |-> <<"f">>,
       version |-> <<"1">>, cpe |-> <<"cpe:f">>],
      [store_path |-> <<"/nix/b">>, name |-> <<"bar">>, pname |-> <<"g", "+">>,
       version |-> EmptyStr, cpe |-> EmptyStr],
      [store_path |-> <<"/nix/a">>, name |-> <<"bar">>, pname |-> <<"g">>,
       version |-> <<"1", "+">>, cpe |-> NaN],
      [store_path |-> <<"/nix/c">>, name |-> <<"qux">>, pname |-> <<"f">>,
       version |-> NaN, cpe |-> EmptyStr],
      [store_path |-> <<"/nix/c">>, name |-> EmptyStr, pname |-> EmptyStr,
       version |-> <<"2">>, cpe |-> <<"cpe:2">>] }

\* items of the catalog file: two entries named foo-1, one named bar without
\* meta
MetaItems ==
    { << <<"nixpkgs.foo">>,
         [name |-> <<"foo-1">>, pname |-> <<"f">>, version |-> <<"1">>,
          meta |-> [homepage |-> <<"h">>, position |-> <<"p">>,
                    license |-> JDict([shortName |-> <<"M">>, spdxId |-> <<"m">>]),
                    maintainers |-> JList(<< JDict([email |-> <<"e">>]) >>)]] >>,
      << <<"nixpkgs.foo2">>,
         [name |-> <<"foo-1">>,
          meta |-> [homepage |-> None,
                    license |-> JList(<< JDict([shortName |-> <<"G">>]),
                                         JStr(<<"B">>),
                                         JDict(EmptyDict) >>)]] >>,
      << <<"nixpkgs.bar">>, [name |-> <<"bar">>, version |-> <<"1">>] >> }

\* a JSON object has one value per key
Catalogs ==
    {jd \in SeqsUpTo(MetaItems, MaxMeta) :
        \A i, j \in 1..Len(jd) : i # j => jd[i][1] # jd[j][1]}

TargetPaths == {<<"/nix/a">>, <<"/nix/b">>, <<"/nix/none">>}

\* uuid.uuid4()
Uuids == {"uuid-1", "uuid-2"}

\* entries of a meta.license list
LicenseItems ==
    { JDict([shortName |-> <<"M">>, spdxId |-> <<"m">>]),
      JDict([shortName |-> EmptyStr]),
      JDict([spdxId |-> <<"x">>]),
      JDict([shortName |-> <<"B", ";">>]),
      JStr(<<"G">>),
      JStr(EmptyStr) }

\* meta objects: license absent, one object, one string, or a list
Metas ==
    {[homepage |-> <<"h">>]}
    \cup {[license |-> x] : x \in LicenseItems}
    \cup {[license |-> JList(l)] : l \in SeqsUpTo(LicenseItems, MaxLicenseItems)}

LicenseChars == {"a", "b", ";"}

\* canonical rows handed to the projector
ProjectorRows ==
    LET base ==
            {[store_path |-> sp, name |-> <<"n">>, pname |-> pn,
              version |-> v, cpe |-> c] :
                sp \in {<<"/nix/a">>, <<"/nix/b">>},
                pn \in {EmptyStr, <<"f">>, <<"g", "+">>},
                v \in {EmptyStr, <<"1">>, <<"1", "+">>},
                c \in {EmptyStr, <<"cpe:f">>}}
    IN base
       \cup {b @@ [meta_license_short |-> l] :
                b \in base, l \in SeqsUpTo(LicenseChars, MaxLicenseLen)}

NoRow == [store_path |-> NoValue]
NoPkg == [name |-> NoValue]

----------------------------------------------------------------------------
(* The run: SbomDb(nix_path, runtime, meta_path) followed by to_cdx *)

Init ==
    /\ pc = "new"
    /\ df_store \in SeqsUpTo(StoreRows, MaxStore)
    /\ meta_path \in {"None", "meta.json"}
    /\ json_dict \in (IF meta_path = "None" THEN {<<>>} ELSE Catalogs)
    /\ target_path \in TargetPaths
    /\ df_merged = <<>>
    /\ df_sbomdb = <<>>
    /\ n_root = 0
    /\ cdx_file = EmptyDict
    /\ pkg = NoPkg
    /\ meta_row = NoRow
    /\ row = NoRow
    /\ component = EmptyDict

\* SbomDb.__init__ and the _generate_sbomdb it calls
SbomDbInit ==
    /\ pc = "new"
    /\ IF MergeRaises(meta_path, json_dict)
       THEN /\ pc' = "KeyError"
            /\ UNCHANGED <<df_merged, df_sbomdb>>
       ELSE /\ pc' = "ready"
            /\ df_merged' = MergedFrame(df_store, meta_path, json_dict)
            /\ df_sbomdb' = GenerateSbomdb(df_store, meta_path, json_dict)
    /\ UNCHANGED <<df_store, meta_path, json_dict, target_path, n_root,
                   cdx_file, pkg, meta_row, row, component>>

\* to_cdx before the loop: the document header
CdxHeader(u) ==
    [bomFormat |-> "CycloneDX",
     specVersion |-> "1.3",
     version |-> 1,
     serialNumber |-> u,
     metadata |-> [tools |-> << [vendor |-> "TII",
                                 name |-> "sbomnix",
                                 version |-> "0.1.0"] >>],
     components |-> <<>>]

\* the body of the loop without the test on target_path
ToCdxRowAppendAlways(r, doc, target) ==
    [doc EXCEPT !.components = Append(@, DfRowToCdxComponent(r))]

\* the body of the loop for one row: the root goes to metadata.component
ToCdxRow(r, doc, target) ==
    IF r.store_path = target
    THEN [doc EXCEPT !.metadata = ("component" :> DfRowToCdxComponent(r)) @@ @]
    ELSE [doc EXCEPT !.components = Append(@, DfRowToCdxComponent(r))]

\* the loop over self.df_sbomdb.itertuples()
RECURSIVE ToCdxRows(_, _, _)
ToCdxRows(rows, doc, target) ==
    IF rows = <<>> THEN doc
    ELSE ToCdxRows(Tail(rows), ToCdxRow(Head(rows), doc, target), target)

\* to_cdx: the first row PackageURL refuses ends it before anything is
\* written; otherwise the document is written once the loop is over
ToCdx ==
    /\ pc = "ready"
    /\ IF \E i \in 1..Len(df_sbomdb) : PackageURLRaises(df_sbomdb[i].pname)
       THEN /\ pc' = "ValueError"
            /\ UNCHANGED <<n_root, cdx_file>>
       ELSE /\ pc' = "done"
            /\ \E u \in Uuids :
                cdx_file' = ToCdxRows(df_sbomdb, CdxHeader(u), target_path)
            /\ n_root' = Cardinality({i \in 1..Len(df_sbomdb) :
                                df_sbomdb[i].store_path = target_path})
    /\ UNCHANGED <<df_store, meta_path, json_dict, target_path, df_merged,
                   df_sbomdb, pkg, meta_row, row, component>>

Next == SbomDbInit \/ ToCdx

Spec == Init /\ [][Next]_vars

----------------------------------------------------------------------------
(* The loader on one package object *)

InitMeta ==
    /\ pc = "pkg"
    /\ pkg \in {[name |-> <<"foo-1">>]}
                \cup {[name |-> <<"foo-1">>, meta |-> m] : m \in Metas}
    /\ meta_row = NoRow
    /\ row = NoRow
    /\ component = EmptyDict
    /\ df_store = <<>>
    /\ meta_path = "None"
    /\ json_dict = <<>>
    /\ target_path = <<"/nix/none">>
    /\ df_merged = <<>>
    /\ df_sbomdb = <<>>
    /\ n_root = 0
    /\ cdx_file = EmptyDict

\* the body of the loop of _parse_json_metadata for one item
ParsePkg ==
    /\ pc = "pkg"
    /\ meta_row' = MetaRow(<<"nixpkgs.foo">>, pkg)
    /\ pc' = "parsed"
    /\ UNCHANGED <<pkg, row, component>>
    /\ UNCHANGED pipeline_vars

NextMeta == ParsePkg

SpecMeta == InitMeta /\ [][NextMeta]_vars

----------------------------------------------------------------------------
(* The projector on one canonical row *)

InitProjector ==
    /\ pc = "row"
    /\ row \in ProjectorRows
    /\ component = EmptyDict
    /\ pkg = NoPkg
    /\ meta_row = NoRow
    /\ df_store = <<>>
    /\ meta_path = "None"
    /\ json_dict = <<>>
    /\ target_path = <<"/nix/none">>
    /\ df_merged = <<>>
    /\ df_sbomdb = <<>>
    /\ n_root = 0
    /\ cdx_file = EmptyDict

\* _df_row_to_cdx_component(row)
ProjectRow ==
    /\ pc = "row"
    /\ IF PackageURLRaises(row.pname)
       THEN /\ pc' = "ValueError"
            /\ UNCHANGED component
       ELSE /\ pc' = "projected"
            /\ component' = DfRowToCdxComponent(row)
    /\ UNCHANGED <<pkg, meta_row, row>>
    /\ UNCHANGED pipeline_vars

NextProjector == ProjectRow

SpecProjector == InitProjector /\ [][NextProjector]_vars

----------------------------------------------------------------------------
(* Properties of the run *)

StoreColumns == {"store_path", "name", "pname", "version", "cpe"}

\* a cell as it reads after missing-value normalization
Normalized(v) == IF IsNa(v) THEN EmptyStr ELSE v

\* _generate_sbomdb has returned
Generated == pc \in {"ready", "done", "ValueError"}

\* position of the first row of rows with the given store_path
FirstIndex(rows, sp) ==
    CHOOSE i \in 1..Len(rows) :
        /\ rows[i].store_path = sp
        /\ \A j \in 1..(i-1) : rows[j].store_path # sp

IsFirstOccurrence(rows, i) ==
    \A j \in 1..(i-1) : rows[j].store_path # rows[i].store_path

\* canonical row c carries the cells of inventory row r
CarriesStoreRow(c, r) ==
    \A col \in StoreColumns : c[col] = Normalized(r[col])

RemoveAt(seq, i) == SubSeq(seq, 1, i-1) \o SubSeq(seq, i+1, Len(seq))

HasRoot(doc) == "component" \in DOMAIN doc.metadata

\* C1: the canonical set has exactly one row per distinct store_path of the
\* inventory, that row is the first occurrence of the store_path in input
\* order, and the kept rows are in the relative order of the input
C1_DedupFirstOccurrence ==
    Generated =>
        /\ \A i, j \in 1..Len(df_sbomdb) :
                i # j => df_sbomdb[i].store_path # df_sbomdb[j].store_path
        /\ {df_sbomdb[i].store_path : i \in 1..Len(df_sbomdb)}
                = {df_store[i].store_path : i \in 1..Len(df_store)}
        /\ \A i \in 1..Len(df_sbomdb) :
                CarriesStoreRow(df_sbomdb[i],
                    df_store[FirstIndex(df_store, df_sbomdb[i].store_path)])
        /\ \A i, j \in 1..Len(df_sbomdb) :
                i < j => FirstIndex(df_store, df_sbomdb[i].store_path)
                            < FirstIndex(df_store, df_sbomdb[j].store_path)

\* an inventory of three rows that repeats a store_path with other cells,
\* merged with a catalog and reduced to two rows
C1_Witness ==
    /\ pc = "ready"
    /\ meta_path # "None"
    /\ Len(df_store) = 3
    /\ Len(df_sbomdb) = 2
    /\ \E i, j \in 1..Len(df_store) :
            /\ i < j
            /\ df_store[i].store_path = df_store[j].store_path
            /\ df_store[i].name # df_store[j].name

\* C2: once the constructor has run, with the catalog absent, empty or
\* without matching names, the canonical set exists and every row of the
\* inventory appears in it
C2_LeftJoinTotality ==
    pc # "new" =>
        \A i \in 1..Len(df_store) :
            /\ pc # "KeyError"
            /\ \E k \in 1..Len(df_sbomdb) :
                    CarriesStoreRow(df_sbomdb[k], df_store[i])

\* C3: in the emitted document, the row whose store_path is the target path
\* is metadata.component and is not in components, and components is the
\* projections of all other canonical rows in canonical order; without such
\* a row metadata.component is unset and components holds all projections
C3_RootPlacement ==
    pc = "done" =>
        LET N == Len(df_sbomdb)
            roots == {i \in 1..N : df_sbomdb[i].store_path = target_path}
            projections == [i \in 1..N |-> DfRowToCdxComponent(df_sbomdb[i])]
        IN IF roots = {}
           THEN /\ ~HasRoot(cdx_file)
                /\ cdx_file.components = projections
           ELSE \A i \in roots :
                /\ HasRoot(cdx_file)
                /\ cdx_file.metadata["component"] = projections[i]
                /\ cdx_file.components = RemoveAt(projections, i)
                /\ Len(cdx_file.components) = N - 1
                /\ \A k \in 1..Len(cdx_file.components) :
                        cdx_file.components[k] # projections[i]

\* three canonical rows, the second is the target: two components
C3_Witness ==
    /\ pc = "done"
    /\ Len(df_sbomdb) = 3
    /\ df_sbomdb[2].store_path = target_path
    /\ Len(cdx_file.components) = 2
    /\ HasRoot(cdx_file)

\* C10: at most one canonical row has the target path, metadata.component is
\* assigned at most once per document, and the number of components plus one
\* for a set metadata.component is the number of canonical rows
C10_RootAssignedOnce ==
    /\ Generated =>
            Cardinality({i \in 1..Len(df_sbomdb) :
                            df_sbomdb[i].store_path = target_path}) <= 1
    /\ n_root <= 1
    /\ pc = "done" =>
            Len(cdx_file.components) + (IF HasRoot(cdx_file) THEN 1 ELSE 0)
                = Len(df_sbomdb)

\* the inventory repeats the target path, and the document has one root
C10_Witness ==
    /\ pc = "done"
    /\ n_root = 1
    /\ Cardinality({i \in 1..Len(df_store) :
                        df_store[i].store_path = target_path}) > 1
    /\ Len(cdx_file.components) = Len(df_sbomdb) - 1
    /\ Len(cdx_file.components) > 0

\* every component of a document, the root included
AllComponents(doc) ==
    {doc.components[k] : k \in 1..Len(doc.components)}
    \cup (IF HasRoot(doc) THEN {doc.metadata["component"]} ELSE {})

\* the canonical row a component was projected from
RowOf(comp) ==
    df_sbomdb[CHOOSE i \in 1..Len(df_sbomdb) :
                    df_sbomdb[i].store_path = comp["bom-ref"]]

MaxSegments == 2

\* the license names of the catalog, and lists of them
SegmentLists == SeqsUpTo({<<"M">>, <<"G">>, <<"B">>}, MaxSegments) \ {<<>>}

\* C4: a projected component has no licenses key when its row has no
\* meta_license_short column or an empty one (as for a row the join left
\* unmatched); when the cell is N non-empty segments joined by ";", licenses
\* has exactly N entries, the i-th being {license: {name: i-th segment}}
C4_LicenseOmission ==
    pc = "done" =>
        \A comp \in AllComponents(cdx_file) :
            LET r == RowOf(comp)
            IN /\ ("meta_license_short" \notin DOMAIN r
                        \/ r["meta_license_short"] = EmptyStr)
                    => "licenses" \notin DOMAIN comp
               /\ "meta_license_short" \in DOMAIN r =>
                    \A segs \in SegmentLists :
                        Join(<<";">>, segs) = r["meta_license_short"] =>
                            /\ "licenses" \in DOMAIN comp
                            /\ Len(comp["licenses"]) = Len(segs)
                            /\ \A i \in 1..Len(segs) :
                                comp["licenses"][i]
                                    = [license |-> [name |-> segs[i]]]

\* a document with a two-license component, a component of a row the join
\* left unmatched and a component of a matched row without license
C4_Witness ==
    /\ pc = "done"
    /\ meta_path # "None"
    /\ \E comp \in AllComponents(cdx_file) :
            /\ "licenses" \in DOMAIN comp
            /\ Len(comp["licenses"]) = 2
    /\ \E comp \in AllComponents(cdx_file) :
            /\ "licenses" \notin DOMAIN comp
            /\ \E i \in 1..Len(df_merged) :
                    /\ df_merged[i].store_path = comp["bom-ref"]
                    /\ df_merged[i].meta_license_short = NaN

ComponentStringKeys == {"type", "bom-ref", "name", "version", "purl", "cpe"}

\* C5: no cell of the canonical set is NaN or None, and no field of a
\* component projected from it is: absent data is "" or an omitted key
C5_NoNullCells ==
    /\ Generated =>
            \A i \in 1..Len(df_sbomdb) :
                \A col \in DOMAIN df_sbomdb[i] : ~IsNa(df_sbomdb[i][col])
    /\ pc = "done" =>
            \A comp \in AllComponents(cdx_file) :
                /\ \A key \in ComponentStringKeys : ~IsNa(comp[key])
                /\ "licenses" \in DOMAIN comp =>
                        \A k \in 1..Len(comp["licenses"]) :
                            ~IsNa(comp["licenses"][k].license["name"])

\* a document from an inventory with a NaN cell, a catalog with a null
\* homepage and a row the join left unmatched
C5_Witness ==
    /\ pc = "done"
    /\ meta_path # "None"
    /\ \E i \in 1..Len(df_merged) :
            /\ IsFirstOccurrence(df_merged, i)
            /\ df_merged[i].version = NaN
            /\ df_merged[i].nixpkgs = NaN
    /\ \E i \in 1..Len(df_merged) :
            /\ IsFirstOccurrence(df_merged, i)
            /\ df_merged[i].meta_homepage = None
    /\ Cardinality(AllComponents(cdx_file)) >= 2

\* positions of the catalog items whose name is the name of inventory row i
MatchingItems(i) ==
    {j \in 1..Len(json_dict) :
        Get(json_dict[j][2], "name", EmptyStr) = df_store[i].name}

Min(S) == CHOOSE x \in S : \A y \in S : x <= y

\* canonical row c carries the metadata cells of catalog item j
CarriesMetaItem(c, j) ==
    LET cells == RightCells(MetaRow(json_dict[j][1], json_dict[j][2]))
    IN /\ c.nixpkgs = json_dict[j][1]
       /\ \A col \in DOMAIN cells : c[col] = Normalized(cells[col])

\* the joined rows of inventory row i number k for each copy of the row
FanOut(i) ==
    Cardinality({k \in 1..Len(df_merged) :
                    [col \in StoreColumns |-> df_merged[k][col]] = df_store[i]})
        = Cardinality(MatchingItems(i))
            * Cardinality({i2 \in 1..Len(df_store) : df_store[i2] = df_store[i]})

\* the canonical set has one row with the store_path of inventory row i,
\* with the metadata of the first matching catalog item in file order
OneRowWithFirstMatch(i) ==
    /\ Cardinality({k \in 1..Len(df_sbomdb) :
                        df_sbomdb[k].store_path = df_store[i].store_path}) = 1
    /\ \A k \in 1..Len(df_sbomdb) :
            df_sbomdb[k].store_path = df_store[i].store_path
                => CarriesMetaItem(df_sbomdb[k], Min(MatchingItems(i)))

\* C9 as stated: for every inventory row whose name k > 1 catalog rows have,
\* the join yields k joined rows, and the canonical set holds exactly one row
\* for it, with the metadata of the first matching catalog row in file order
C9_FanOutFirstMatch ==
    (Generated /\ meta_path # "None") =>
        \A i \in 1..Len(df_store) :
            Cardinality(MatchingItems(i)) > 1 =>
                FanOut(i) /\ OneRowWithFirstMatch(i)

\* C9 as amended: the same, the canonical row being that of an inventory row
\* that is the first occurrence of its store_path
C9_FanOutFirstMatchOfFirstOccurrence ==
    (Generated /\ meta_path # "None") =>
        \A i \in 1..Len(df_store) :
            Cardinality(MatchingItems(i)) > 1 =>
                /\ FanOut(i)
                /\ IsFirstOccurrence(df_store, i) => OneRowWithFirstMatch(i)

\* two catalog items named foo-1, nixpkgs.foo2 first in the file, and the
\* canonical row of an inventory row named foo-1 carries nixpkgs.foo2
C9_Witness ==
    /\ pc = "ready"
    /\ Len(json_dict) = 2
    /\ json_dict[1][1] = <<"nixpkgs.foo2">>
    /\ json_dict[2][1] = <<"nixpkgs.foo">>
    /\ Len(df_merged) > Len(df_store)
    /\ \E k \in 1..Len(df_sbomdb) :
            /\ df_sbomdb[k].name = <<"foo-1">>
            /\ df_sbomdb[k].nixpkgs = <<"nixpkgs.foo2">>
            /\ df_sbomdb[k].meta_license_short = <<"G", ";", "B">>

----------------------------------------------------------------------------
(* Properties of the projector *)

NixPrefix == <<"p", "k", "g", ":", "n", "i", "x", "/">>

C8_NonEmptySegmentsOnly ==
    (/\ pc = "projected"
     /\ "meta_license_short" \in DOMAIN row
     /\ row["meta_license_short"] # EmptyStr) =>
        LET segments == Split(row["meta_license_short"], ";")
            non_empty == SelectSeq(segments, LAMBDA x : x # EmptyStr)
            licenses == IF "licenses" \in DOMAIN component
                        THEN component["licenses"] ELSE <<>>
        IN /\ Len(licenses) = Len(non_empty)
           /\ \A k \in 1..Len(licenses) :
                licenses[k].license["name"] # EmptyStr

----------------------------------------------------------------------------
(* Properties of the loader *)

\* the entries of meta.license: none, the single value, or those of the list
LicenseEntries(p) ==
    LET meta == Get(p, "meta", EmptyDict)
    IN IF "license" \notin DOMAIN meta THEN <<>>
       ELSE IF meta["license"].t = "list" THEN meta["license"].l
       ELSE << meta["license"] >>

\* the shortName of an object, a plain string verbatim
ShortNameOf(x) ==
    IF x.t = "str" THEN x.s
    ELSE IF "shortName" \in DOMAIN x.d THEN x.d["shortName"]
    ELSE EmptyStr

RECURSIVE KeptShortNames(_)
KeptShortNames(entries) ==
    IF entries = <<>> THEN <<>>
    ELSE (IF ShortNameOf(Head(entries)) = EmptyStr THEN <<>>
          ELSE << ShortNameOf(Head(entries)) >>)
         \o KeptShortNames(Tail(entries))

\* no empty segment between two ";"
NoEmptyInnerSegment(str) ==
    \A k \in 1..(Len(str) - 1) : ~(str[k] = ";" /\ str[k+1] = ";")

ShortLicenseIsJoin ==
    /\ meta_row.meta_license_short
            = Join(<<";">>, KeptShortNames(LicenseEntries(pkg)))
    /\ KeptShortNames(LicenseEntries(pkg)) = <<>>
            => meta_row.meta_license_short = EmptyStr

\* C7 as stated: meta_license_short is the ";"-join, in input order, of the
\* shortName of every object and of every plain string, empty values
\* removed; it is empty when no value remains and never has an empty
\* segment between two ";"
C7_LicenseFlattening ==
    pc = "parsed" =>
        /\ ShortLicenseIsJoin
        /\ NoEmptyInnerSegment(meta_row.meta_license_short)

\* C7 as amended: the same, without an empty segment between two ";"
\* provided no kept value itself contains a ";"
C7_LicenseFlatteningVerbatim ==
    pc = "parsed" =>
        /\ ShortLicenseIsJoin
        /\ (\A k \in 1..Len(KeptShortNames(LicenseEntries(pkg))) :
                \A c \in 1..Len(KeptShortNames(LicenseEntries(pkg))[k]) :
                    KeptShortNames(LicenseEntries(pkg))[k][c] # ";")
            => NoEmptyInnerSegment(meta_row.meta_license_short)

\* a list of an object, an object without shortName and a plain string
C7_Witness ==
    /\ pc = "parsed"
    /\ Len(LicenseEntries(pkg)) = 3
    /\ LicenseEntries(pkg)[1].t = "dict"
    /\ LicenseEntries(pkg)[2].t = "dict"
    /\ "shortName" \notin DOMAIN LicenseEntries(pkg)[2].d
    /\ LicenseEntries(pkg)[3].t = "str"
    /\ meta_row.meta_license_short = <<"M", ";", "G">>

====
